---- MODULE Spec2Model ----
(***************************************************************************)
(* A model of the single-producer / single-consumer ring buffer of        *)
(* src/src/ring_buffer.rs: the shared RingBuffer storage, the consumer    *)
(* and producer handles, and the two region types whose Drop commits      *)
(* their private cursor to the storage.                                   *)
(*                                                                         *)
(* A slice is modelled by the index range [lo, hi) of the boxed buffer it *)
(* borrows, so a region reads and writes the live buffer exactly as the   *)
(* Rust references do.  A Rust panic (index out of bounds, slice range    *)
(* out of bounds, remainder by zero, arithmetic overflow) ends the run:   *)
(* panicked records its kind and no further operation is taken.           *)
(* The borrow checker is modelled by the guards: a handle cannot be used  *)
(* while the region created from it is alive.                             *)
(***************************************************************************)
EXTENDS Integers, Sequences, FiniteSets, TLC

\* ---- bounds of the model ------------------------------------------------
MaxCapacity == 3
MaxValue == 2
MaxAdvance == 4
MaxSize == 6

\* the content of a slot that was never written (Vec::set_len, no init)
Uninit == 0
Values == 1..MaxValue

VARIABLES
  capacity,    \* buffer.len()
  buffer,      \* RingBuffer.buffer: slot index -> value
  read_index,  \* RingBuffer.read_index
  size,        \* RingBuffer.size
  cregion,     \* the live RingBufferConsumerRegion, if any
  pregion,     \* the live RingBufferProducerRegion, if any
  panicked,    \* "none", or the kind of the panic that ended the run
  lastOp,      \* history: the last operation called
  arg,         \* history: its argument (the value pushed, the n of advance)
  result,      \* history: what it returned
  ret,         \* history: the value carried by Ok(value) / Some(value)
  commit,      \* history: what the last step committed, if it was a region drop
  fifo         \* history: pushes then pops made on the fresh buffer

vars == <<capacity, buffer, read_index, size, cregion, pregion, panicked,
          lastOp, arg, result, ret, commit, fifo>>

\* ---- slices ---------------------------------------------------------------
Slice(lo, hi) == [lo |-> lo, hi |-> hi]

EmptySlice == Slice(0, 0)

SliceLen(s) == s.hi - s.lo

\* the slot indices a slice covers, in order
SliceIdx(s) == [i \in 1..SliceLen(s) |-> s.lo + i - 1]

\* the slot indices of a pair of slices, first slice first
PairIdx(p) == SliceIdx(p[1]) \o SliceIdx(p[2])

PairLen(p) == SliceLen(p[1]) + SliceLen(p[2])

Min(a, b) == IF a < b THEN a ELSE b

\* the values a read of slot i can yield: anything if it was never written
Load(i) == IF buffer[i] = Uninit THEN Values ELSE {buffer[i]}

\* ---- RingBuffer -------------------------------------------------------------
read_slots == size

write_slots == capacity - size

\* usize subtraction in write_slots underflows when size > buffer.len()
WriteSlotsOverflows == size > capacity

write_index_skip == (read_index + size + 1) % capacity

write_index == (read_index + size) % capacity

\* read_slices panics on the remainder by zero of write_index, or on the
\* range read_index..capacity when read_index is past the end
ReadSlicesPanics ==
  \/ capacity = 0
  \/ /\ ~(write_index > read_index \/ (write_index = read_index /\ size = 0))
     /\ read_index > capacity

read_slices_by_index ==
  IF write_index >= read_index
  THEN <<Slice(read_index, write_index), EmptySlice>>
  ELSE <<Slice(read_index, capacity), Slice(0, write_index)>>

\* RingBuffer::read_slices
read_slices ==
  IF write_index > read_index \/ (write_index = read_index /\ size = 0)
  THEN <<Slice(read_index, write_index), EmptySlice>>
  ELSE <<Slice(read_index, capacity), Slice(0, write_index)>>

\* write_slices panics on the remainder by zero of write_index, or on the
\* range write_index..read_index when read_index is past the end
WriteSlicesPanics ==
  \/ capacity = 0
  \/ /\ (read_index >= write_index \/ (write_index = read_index /\ size = 0))
     /\ read_index > capacity

write_slices ==
  IF read_index >= write_index \/ (write_index = read_index /\ size = 0)
  THEN <<Slice(write_index, read_index), EmptySlice>>
  ELSE <<Slice(write_index, capacity), Slice(0, read_index)>>

\* RingBuffer::pop
pop ==
  IF size > 0
  THEN IF read_index >= capacity
       THEN /\ panicked' = "index out of bounds"
            /\ result' = "Panic"
            /\ ret' = 0
            /\ UNCHANGED <<read_index, size>>
       ELSE /\ ret' \in Load(read_index)
            /\ read_index' = (read_index + 1) % capacity
            /\ size' = size - 1
            /\ result' = "Ok"
            /\ UNCHANGED panicked
  ELSE /\ result' = "Empty"
       /\ ret' = 0
       /\ UNCHANGED <<read_index, size, panicked>>

push_off_by_one(slot) ==
  IF size <= capacity /\ capacity > 0
  THEN /\ buffer' = [buffer EXCEPT ![write_index] = slot]
       /\ size' = size + 1
       /\ result' = "Ok"
  ELSE /\ result' = "Full"
       /\ UNCHANGED <<buffer, size>>

\* RingBuffer::push
push(slot) ==
  IF size < capacity
  THEN /\ buffer' = [buffer EXCEPT ![write_index] = slot]
       /\ size' = size + 1
       /\ result' = "Ok"
  ELSE /\ result' = "Full"
       /\ UNCHANGED <<buffer, size>>

\* ---- history of the fresh-buffer scenario -----------------------------------
FifoOff == [phase |-> "off", pushed |-> <<>>, popped |-> <<>>]

NoCommit == [side |-> "none", k |-> 0, total |-> 0, before |-> 0]

NoConsumerRegion ==
  [open |-> FALSE, slices |-> <<EmptySlice, EmptySlice>>, consumed |-> 0]

NoProducerRegion ==
  [open |-> FALSE, slices |-> <<EmptySlice, EmptySlice>>, produced |-> 0]

TypeOK ==
  /\ capacity \in 0..MaxCapacity
  /\ DOMAIN buffer = 0..(capacity - 1)
  /\ \A i \in DOMAIN buffer : buffer[i] \in {Uninit} \cup Values
  /\ read_index \in Nat
  /\ size \in 0..MaxSize
  /\ cregion.open \in BOOLEAN
  /\ cregion.consumed \in Nat
  /\ pregion.open \in BOOLEAN
  /\ pregion.produced \in Nat
  /\ \A r \in {cregion, pregion} : \A i \in 1..2 :
       /\ r.slices[i].lo <= r.slices[i].hi
       /\ r.slices[i].hi <= capacity

\* ---- RingBuffer::new ----------------------------------------------------------
Init ==
  /\ capacity \in 0..MaxCapacity
  /\ buffer = [i \in 0..(capacity - 1) |-> Uninit]
  /\ read_index = 0
  /\ size = 0
  /\ cregion = NoConsumerRegion
  /\ pregion = NoProducerRegion
  /\ panicked = "none"
  /\ lastOp = "new"
  /\ arg = 0
  /\ result = "Ok"
  /\ ret = 0
  /\ commit = NoCommit
  /\ fifo = [phase |-> "push", pushed |-> <<>>, popped |-> <<>>]

\* ---- Producer handle ----------------------------------------------------------
\* Producer::push
ProducerPush(value) ==
  /\ panicked = "none"
  /\ ~pregion.open
  /\ push(value)
  /\ lastOp' = "producer.push"
  /\ arg' = value
  /\ ret' = 0
  /\ commit' = NoCommit
  /\ fifo' = IF result' = "Ok"
             THEN IF fifo.phase = "push"
                  THEN [fifo EXCEPT !.pushed = Append(@, value)]
                  ELSE FifoOff
             ELSE fifo
  /\ UNCHANGED <<capacity, read_index, cregion, pregion, panicked>>

\* ---- Consumer handle ----------------------------------------------------------
\* Consumer::pop
ConsumerPop ==
  /\ panicked = "none"
  /\ ~cregion.open
  /\ pop
  /\ lastOp' = "consumer.pop"
  /\ arg' = 0
  /\ commit' = NoCommit
  /\ fifo' = IF result' = "Ok" /\ fifo.phase # "off"
             THEN [fifo EXCEPT !.phase = "pop", !.popped = Append(@, ret')]
             ELSE IF result' = "Panic" THEN FifoOff ELSE fifo
  /\ UNCHANGED <<capacity, buffer, cregion, pregion>>

\* Consumer::region
ConsumerRegion ==
  /\ panicked = "none"
  /\ ~cregion.open
  /\ IF ReadSlicesPanics
     THEN /\ panicked' = IF capacity = 0 THEN "remainder by zero"
                                         ELSE "slice index out of range"
          /\ result' = "Panic"
          /\ UNCHANGED cregion
     ELSE /\ cregion' = [open |-> TRUE, slices |-> read_slices, consumed |-> 0]
          /\ result' = "Ok"
          /\ UNCHANGED panicked
  /\ lastOp' = "consumer.region"
  /\ arg' = 0
  /\ ret' = 0
  /\ commit' = NoCommit
  /\ fifo' = FifoOff
  /\ UNCHANGED <<capacity, buffer, read_index, size, pregion>>

\* ---- RingBufferConsumerRegion ---------------------------------------------------
\* ConsumerRegion::slot_count
consumer_region_slot_count == PairLen(cregion.slices) - cregion.consumed

\* the slot the region's logical offset index refers to
ConsumerRegionSlot(index) == PairIdx(cregion.slices)[index + 1]

region_pop_counts_first(some, none) ==
  LET cap == PairLen(cregion.slices)
      index == cregion.consumed
  IN /\ cregion' = [cregion EXCEPT !.consumed = @ + 1]
     /\ IF index >= cap
        THEN /\ result' = none
             /\ ret' = 0
        ELSE /\ ret' \in Load(ConsumerRegionSlot(index))
             /\ result' = some

\* ConsumerRegion::pop; some and none name the two results
region_pop(some, none) ==
  LET cap == PairLen(cregion.slices)
      index == cregion.consumed
  IN IF index >= cap
     THEN /\ result' = none
          /\ ret' = 0
          /\ UNCHANGED cregion
     ELSE /\ cregion' = [cregion EXCEPT !.consumed = @ + 1]
          /\ ret' \in Load(ConsumerRegionSlot(index))
          /\ result' = some

ConsumerRegionPop ==
  /\ panicked = "none"
  /\ cregion.open
  /\ region_pop("Ok", "Empty")
  /\ lastOp' = "consumer_region.pop"
  /\ arg' = 0
  /\ commit' = NoCommit
  /\ UNCHANGED <<capacity, buffer, read_index, size, pregion, panicked, fifo>>

\* Iterator::next
ConsumerRegionNext ==
  /\ panicked = "none"
  /\ cregion.open
  /\ region_pop("Some", "None")
  /\ lastOp' = "consumer_region.next"
  /\ arg' = 0
  /\ commit' = NoCommit
  /\ UNCHANGED <<capacity, buffer, read_index, size, pregion, panicked, fifo>>

\* as_slices panics when the start of the second range is past its end
AsSlicesPanics ==
  LET s1 == cregion.slices[1]
      s2 == cregion.slices[2]
  IN /\ ~(cregion.consumed < SliceLen(s1))
     /\ cregion.consumed - SliceLen(s1) > SliceLen(s2)

as_slices_keep_second ==
  LET s1 == cregion.slices[1]
      s2 == cregion.slices[2]
  IN IF cregion.consumed < SliceLen(s1)
     THEN <<Slice(s1.lo + cregion.consumed, s1.hi), s2>>
     ELSE <<s2, EmptySlice>>

\* ConsumerRegion::as_slices
as_slices ==
  LET s1 == cregion.slices[1]
      s2 == cregion.slices[2]
  IN IF cregion.consumed < SliceLen(s1)
     THEN <<Slice(s1.lo + cregion.consumed, s1.hi), s2>>
     ELSE <<Slice(s2.lo + (cregion.consumed - SliceLen(s1)), s2.hi), EmptySlice>>

advance_unclamped(n) ==
  cregion' = [cregion EXCEPT !.consumed = @ + n]

\* ConsumerRegion::advance
advance(n) ==
  cregion' = [cregion EXCEPT !.consumed = @ + Min(consumer_region_slot_count, n)]

ConsumerRegionAdvance(n) ==
  /\ panicked = "none"
  /\ cregion.open
  /\ advance(n)
  /\ lastOp' = "consumer_region.advance"
  /\ arg' = n
  /\ result' = "Ok"
  /\ ret' = 0
  /\ commit' = NoCommit
  /\ UNCHANGED <<capacity, buffer, read_index, size, pregion, panicked, fifo>>

ConsumerRegionDrop_keeps_size ==
  /\ panicked = "none"
  /\ cregion.open
  /\ read_index' = read_index + cregion.consumed
  /\ cregion' = NoConsumerRegion
  /\ lastOp' = "consumer_region.drop"
  /\ arg' = 0
  /\ result' = "Ok"
  /\ ret' = 0
  /\ commit' = [side |-> "consumer", k |-> cregion.consumed,
                total |-> PairLen(cregion.slices), before |-> size]
  /\ UNCHANGED <<capacity, buffer, size, pregion, panicked, fifo>>

\* Drop for RingBufferConsumerRegion
ConsumerRegionDrop ==
  /\ panicked = "none"
  /\ cregion.open
  /\ read_index' = read_index + cregion.consumed
  /\ IF cregion.consumed > size
     THEN /\ panicked' = "subtract with overflow"
          /\ result' = "Panic"
          /\ UNCHANGED size
     ELSE /\ size' = size - cregion.consumed
          /\ result' = "Ok"
          /\ UNCHANGED panicked
  /\ cregion' = NoConsumerRegion
  /\ lastOp' = "consumer_region.drop"
  /\ arg' = 0
  /\ ret' = 0
  /\ commit' = [side |-> "consumer", k |-> cregion.consumed,
                total |-> PairLen(cregion.slices), before |-> size]
  /\ UNCHANGED <<capacity, buffer, pregion, fifo>>

\* ---- Producer handle: region ------------------------------------------------------
\* Producer::region
ProducerRegion ==
  /\ panicked = "none"
  /\ ~pregion.open
  /\ IF WriteSlicesPanics
     THEN /\ panicked' = IF capacity = 0 THEN "remainder by zero"
                                         ELSE "slice index out of range"
          /\ result' = "Panic"
          /\ UNCHANGED pregion
     ELSE /\ pregion' = [open |-> TRUE, slices |-> write_slices, produced |-> 0]
          /\ result' = "Ok"
          /\ UNCHANGED panicked
  /\ lastOp' = "producer.region"
  /\ arg' = 0
  /\ ret' = 0
  /\ commit' = NoCommit
  /\ fifo' = FifoOff
  /\ UNCHANGED <<capacity, buffer, read_index, size, cregion>>

\* ---- RingBufferProducerRegion -----------------------------------------------------
\* ProducerRegion::slot_count
producer_region_slot_count == PairLen(pregion.slices) - pregion.produced

\* the slot the region's logical offset index refers to
ProducerRegionSlot(index) == PairIdx(pregion.slices)[index + 1]

\* ProducerRegion::push
ProducerRegionPush(value) ==
  /\ panicked = "none"
  /\ pregion.open
  /\ LET cap == PairLen(pregion.slices)
         index == pregion.produced
     IN IF index >= cap
        THEN /\ result' = "Full"
             /\ UNCHANGED <<pregion, buffer>>
        ELSE /\ pregion' = [pregion EXCEPT !.produced = @ + 1]
             /\ buffer' = [buffer EXCEPT ![ProducerRegionSlot(index)] = value]
             /\ result' = "Ok"
  /\ lastOp' = "producer_region.push"
  /\ arg' = value
  /\ ret' = 0
  /\ commit' = NoCommit
  /\ UNCHANGED <<capacity, read_index, size, cregion, panicked, fifo>>

ProducerRegionDrop_moves_cursor ==
  /\ panicked = "none"
  /\ pregion.open
  /\ size + pregion.produced <= MaxSize
  /\ read_index' = read_index + pregion.produced
  /\ size' = size + pregion.produced
  /\ pregion' = NoProducerRegion
  /\ lastOp' = "producer_region.drop"
  /\ arg' = 0
  /\ result' = "Ok"
  /\ ret' = 0
  /\ commit' = [side |-> "producer", k |-> pregion.produced,
                total |-> PairLen(pregion.slices), before |-> size]
  /\ UNCHANGED <<capacity, buffer, cregion, panicked, fifo>>

\* Drop for RingBufferProducerRegion; the model stops the counter at MaxSize
ProducerRegionDrop ==
  /\ panicked = "none"
  /\ pregion.open
  /\ size + pregion.produced <= MaxSize
  /\ size' = size + pregion.produced
  /\ pregion' = NoProducerRegion
  /\ lastOp' = "producer_region.drop"
  /\ arg' = 0
  /\ result' = "Ok"
  /\ ret' = 0
  /\ commit' = [side |-> "producer", k |-> pregion.produced,
                total |-> PairLen(pregion.slices), before |-> size]
  /\ UNCHANGED <<capacity, buffer, read_index, cregion, panicked, fifo>>

Next ==
  \/ \E value \in Values : ProducerPush(value)
  \/ ConsumerPop
  \/ ConsumerRegion
  \/ ConsumerRegionPop
  \/ ConsumerRegionNext
  \/ \E n \in 0..MaxAdvance : ConsumerRegionAdvance(n)
  \/ ConsumerRegionDrop
  \/ ProducerRegion
  \/ \E value \in Values : ProducerRegionPush(value)
  \/ ProducerRegionDrop

Spec == Init /\ [][Next]_vars

\* ============================================================================
\* Properties
\* ============================================================================

\* the fresh-buffer scenario is still running: only producer.push calls,
\* then only consumer.pop calls, have been made since RingBuffer::new
FreshRun == fifo.phase # "off"

\* C1: FIFO order through the handles. On a freshly created buffer, after
\* pushing v1..vn with producer.push and then popping with consumer.pop, the
\* values popped so far are v1, v2, ... in that order, no pop fails before
\* all n were returned, and nothing panics.
FifoOrder ==
  FreshRun =>
    /\ panicked = "none"
    /\ Len(fifo.popped) <= Len(fifo.pushed)
    /\ fifo.popped = SubSeq(fifo.pushed, 1, Len(fifo.popped))
    /\ size = Len(fifo.pushed) - Len(fifo.popped)
    /\ (lastOp = "consumer.pop" /\ result = "Empty")
         => Len(fifo.popped) = Len(fifo.pushed)

\* a full buffer of distinct values was pushed and popped back entirely
FifoOrderWitness ==
  /\ capacity >= 2
  /\ fifo.phase = "pop"
  /\ Len(fifo.pushed) = capacity
  /\ Len(fifo.popped) = capacity
  /\ fifo.pushed[1] # fifo.pushed[2]

\* C2: occupancy bound. In every reachable state 0 <= size <= capacity.
OccupancyBound == 0 <= size /\ size <= capacity

\* C3: read cursor bound. For a buffer of capacity >= 1, in every reachable
\* state 0 <= read_index < capacity (a released consumer region leaves
\* read_index at (old read_index + k) mod capacity).
ReadCursorBound == capacity >= 1 => (0 <= read_index /\ read_index < capacity)

\* C4: only Empty and Full are ever reported. For capacity >= 1 no operation
\* of the handles or the regions ends in a panic.
OnlyEmptyAndFull == capacity >= 1 => panicked = "none"

\* C5: a producer region covers the whole free area. Right after
\* producer.region() returned, the region's slot_count() equals
\* producer.slot_count() = capacity - size.
ProducerRegionCoversFree ==
  (lastOp = "producer.region" /\ result = "Ok")
    => producer_region_slot_count = write_slots

\* what repeated consumer.pop() until Empty returns from cursor r with s
\* elements left: the values read, and whether the run ended without panic
RECURSIVE PopDrain(_, _)
PopDrain(r, s) ==
  IF s = 0 THEN [values |-> <<>>, ok |-> TRUE]
  ELSE IF r >= capacity THEN [values |-> <<>>, ok |-> FALSE]
  ELSE LET rest == PopDrain((r + 1) % capacity, s - 1)
       IN [values |-> <<buffer[r]>> \o rest.values, ok |-> rest.ok]

\* what a consumer.region() created now yields when iterated to exhaustion
RegionDrain ==
  IF ReadSlicesPanics THEN [values |-> <<>>, ok |-> FALSE]
  ELSE [values |-> [i \in 1..PairLen(read_slices) |->
                      buffer[PairIdx(read_slices)[i]]],
        ok |-> TRUE]

\* C6: region pop matches sequential pop. In every state where the consumer
\* handle is free, a new consumer region iterated to exhaustion yields the
\* same values in the same order as consumer.pop() repeated until Empty.
RegionPopMatchesSequentialPop ==
  (capacity >= 1 /\ panicked = "none" /\ ~cregion.open)
    => RegionDrain = PopDrain(read_index, size)

\* a step of the open consumer region that moves only its private cursor
RegionCursorStep ==
  lastOp' \in {"consumer_region.pop", "consumer_region.next",
               "consumer_region.advance"}

FreshFull ==
  /\ capacity >= 1
  /\ fifo.phase = "push"
  /\ Len(fifo.pushed) = capacity

\* C8: full boundary. For every capacity >= 1, after capacity successful
\* producer.push calls on a fresh buffer producer.slot_count() is 0 and the
\* next producer.push fails with Full, leaving slot_count() at 0.
FullBoundary ==
  /\ [](FreshFull => (size = capacity /\ write_slots = 0))
  /\ [][(FreshFull /\ lastOp' = "producer.push")
          => (result' = "Full" /\ write_slots' = 0)]_vars

FullBoundaryWitness ==
  /\ FreshFull
  /\ capacity >= 2
  /\ lastOp = "producer.push"
  /\ result = "Full"

\* C9: advance is clamped. advance(n) raises consumed by exactly
\* min(n, slot_count()); consumed never exceeds the length of the snapshot;
\* a pop on a region advanced to its end fails with Empty.
AdvanceClamped ==
  /\ [](cregion.open => cregion.consumed <= PairLen(cregion.slices))
  /\ [][lastOp' = "consumer_region.advance" =>
          cregion'.consumed =
            cregion.consumed + Min(arg', consumer_region_slot_count)]_vars
  /\ [][(cregion.open /\ consumer_region_slot_count = 0
           /\ lastOp' = "consumer_region.pop")
          => (result' = "Empty" /\ cregion' = cregion)]_vars

\* advance(n) was called with n above what the region still held
AdvanceClampedWitness ==
  /\ cregion.open
  /\ lastOp = "consumer_region.advance"
  /\ PairLen(cregion.slices) >= 2
  /\ arg > PairLen(cregion.slices)
  /\ cregion.consumed = PairLen(cregion.slices)

\* C10: as_slices reports the remaining portion. For every open consumer
\* region, the two slices of as_slices() are, concatenated, the snapshot
\* without its first consumed elements; they are (slice_a[consumed..],
\* slice_b) while consumed < len(slice_a) and
\* (slice_b[consumed - len(slice_a)..], empty) afterwards.
AsSlicesRemaining ==
  cregion.open =>
    LET a == cregion.slices[1]
        b == cregion.slices[2]
        k == cregion.consumed
    IN /\ ~AsSlicesPanics
       /\ PairIdx(as_slices)
            = SubSeq(PairIdx(cregion.slices), k + 1, PairLen(cregion.slices))
       /\ k < SliceLen(a) =>
            /\ SliceIdx(as_slices[1]) = SubSeq(SliceIdx(a), k + 1, SliceLen(a))
            /\ SliceIdx(as_slices[2]) = SliceIdx(b)
       /\ k >= SliceLen(a) =>
            /\ SliceIdx(as_slices[1])
                 = SubSeq(SliceIdx(b), k - SliceLen(a) + 1, SliceLen(b))
            /\ SliceIdx(as_slices[2]) = <<>>

\* a wrapped snapshot consumed into its second slice
AsSlicesRemainingWitness ==
  /\ cregion.open
  /\ SliceLen(cregion.slices[1]) >= 1
  /\ SliceLen(cregion.slices[2]) >= 2
  /\ cregion.consumed = SliceLen(cregion.slices[1]) + 1

\* C11: wraparound split at region creation. Right after consumer.region()
\* returned, when the readable range reaches past the physical end of the
\* array (read_index + size >= capacity with size > 0, the full buffer
\* included) the snapshot is slice_a = slots [read_index, capacity) and
\* slice_b = slots [0, write_index); otherwise it is the single slice
\* [read_index, write_index) and an empty second slice.
WraparoundSplit ==
  (lastOp = "consumer.region" /\ result = "Ok") =>
    IF size > 0 /\ read_index + size >= capacity
    THEN /\ SliceIdx(cregion.slices[1]) = SliceIdx(Slice(read_index, capacity))
         /\ SliceIdx(cregion.slices[2]) = SliceIdx(Slice(0, write_index))
    ELSE /\ SliceIdx(cregion.slices[1]) = SliceIdx(Slice(read_index, write_index))
         /\ SliceIdx(cregion.slices[2]) = <<>>

\* a region created on a full buffer whose oldest element is in the last
\* slot: one slot in slice_a, capacity - 1 slots in slice_b
WraparoundSplitWitness ==
  /\ lastOp = "consumer.region"
  /\ result = "Ok"
  /\ capacity >= 3
  /\ size = capacity
  /\ read_index = capacity - 1
  /\ SliceLen(cregion.slices[1]) = 1
  /\ SliceLen(cregion.slices[2]) = capacity - 1

\* C12: capacity 0 is degenerate but safe. On a buffer created with
\* capacity 0 nothing panics: every producer.push returns Full, every
\* consumer.pop returns Empty, consumer.region() and producer.region()
\* return regions with slot_count() = 0, whose pop returns Empty and whose
\* push returns Full.
CapacityZeroSafe ==
  capacity = 0 =>
    /\ panicked = "none"
    /\ size = 0
    /\ lastOp = "producer.push" => result = "Full"
    /\ lastOp = "consumer.pop" => result = "Empty"
    /\ lastOp \in {"consumer.region", "producer.region"} => result = "Ok"
    /\ cregion.open => consumer_region_slot_count = 0
    /\ pregion.open => producer_region_slot_count = 0
    /\ lastOp = "consumer_region.pop" => result = "Empty"
    /\ lastOp = "producer_region.push" => result = "Full"

\* the operations made through the producer side
ProducerOps ==
  {"producer.push", "producer.region", "producer_region.push",
   "producer_region.drop"}

\* the slots of the live consumer region's snapshot
ConsumerSnapshotSlots ==
  {PairIdx(cregion.slices)[i] : i \in 1..PairLen(cregion.slices)}

\* the slots of the live producer region's snapshot
ProducerSnapshotSlots ==
  {PairIdx(pregion.slices)[i] : i \in 1..PairLen(pregion.slices)}

\* C13: consumer snapshot stability. While a consumer region is open, no
\* operation made through the producer side (producer.push, opening a
\* producer region, producer-region push, producer-region release) writes a
\* slot of the open consumer region's snapshot.
ConsumerSnapshotStable ==
  [][(cregion.open /\ lastOp' \in ProducerOps)
      => \A i \in ConsumerSnapshotSlots : buffer'[i] = buffer[i]]_vars

\* the step is a call that reported ordinary exhaustion
FailedCall ==
  \/ lastOp' = "producer.push" /\ result' = "Full"
  \/ lastOp' = "consumer.pop" /\ result' = "Empty"
  \/ lastOp' = "producer_region.push" /\ result' = "Full"
  \/ lastOp' = "consumer_region.pop" /\ result' = "Empty"

\* C14: no partial failure. A producer.push that returns Full, a
\* consumer.pop that returns Empty, a producer-region push that returns Full
\* and a consumer-region pop that returns Empty leave the slots, read_index,
\* size and both regions (snapshot and produced / consumed) as they were.
NoPartialFailure ==
  [][FailedCall =>
      UNCHANGED <<buffer, read_index, size, cregion, pregion, panicked>>]_vars

\* a pop on a consumer region that had been consumed to its end failed
NoPartialFailureWitness ==
  /\ lastOp = "consumer_region.pop"
  /\ result = "Empty"
  /\ cregion.open
  /\ cregion.consumed >= 1
  /\ cregion.consumed = PairLen(cregion.slices)

\* C15: production never moves the read cursor. producer.push,
\* producer-region push and producer-region release leave read_index
\* unchanged; releasing a producer region with produced = p changes the
\* storage only by size := size + p.
ProductionKeepsReadIndex ==
  /\ [][lastOp' \in {"producer.push", "producer_region.push",
                     "producer_region.drop"}
         => read_index' = read_index]_vars
  /\ [][lastOp' = "producer_region.drop" =>
          /\ size' = size + pregion.produced
          /\ UNCHANGED <<buffer, read_index, capacity>>]_vars

\* a producer region that produced at least one value was released on a
\* buffer whose read cursor is not at slot 0
ProductionKeepsReadIndexWitness ==
  /\ commit.side = "producer"
  /\ commit.k >= 1
  /\ size = commit.before + commit.k
  /\ read_index >= 1
  /\ read_index < capacity

\* the readable queue the storage stands for: the size slots starting at
\* read_index, wrapping modulo the capacity
Readable == [i \in 1..size |-> buffer[(read_index + i - 1) % capacity]]

\* the values a live producer region has written and not yet committed
Staged == [i \in 1..pregion.produced |-> buffer[PairIdx(pregion.slices)[i]]]

\* a consumer-side call that hands a value to the caller
ReturnsValue ==
  \/ lastOp' = "consumer.pop" /\ result' = "Ok"
  \/ lastOp' = "consumer_region.pop" /\ result' = "Ok"
  \/ lastOp' = "consumer_region.next" /\ result' = "Some"

\* C16: abstract-queue correspondence. The size slots starting at read_index
\* (wrapping modulo capacity) are the queue of committed, not yet consumed
\* values in commit order: producer.push appends its value, releasing a
\* producer region appends the values it wrote in push order, consumer.pop
\* removes and returns the head, releasing a consumer region removes its
\* consumed values from the head, a consumer-region pop returns the next
\* value of the queue, nothing else changes the queue, and every readable
\* slot was written.
AbstractQueueCorrespondence ==
  /\ [](\A i \in 1..size : Readable[i] # Uninit)
  /\ [][/\ (lastOp' = "producer.push" /\ result' = "Ok")
           => Readable' = Append(Readable, arg')
        /\ (lastOp' = "producer.push" /\ result' # "Ok")
           => Readable' = Readable
        /\ lastOp' = "producer_region.drop"
           => Readable' = Readable \o Staged
        /\ lastOp' \in {"producer.region", "producer_region.push"}
           => Readable' = Readable
        /\ lastOp' = "consumer.pop"
           => IF result' = "Ok"
              THEN /\ size > 0
                   /\ ret' = Head(Readable)
                   /\ Readable' = Tail(Readable)
              ELSE Readable' = Readable
        /\ lastOp' = "consumer_region.drop"
           => Readable' = SubSeq(Readable, cregion.consumed + 1, size)
        /\ lastOp' \in {"consumer.region", "consumer_region.pop",
                        "consumer_region.next", "consumer_region.advance"}
           => Readable' = Readable
        /\ (lastOp' \in {"consumer_region.pop", "consumer_region.next"}
              /\ ReturnsValue)
           => /\ cregion.consumed < size
              /\ ret' = Readable[cregion.consumed + 1]]_vars

\* C17: producer-region push fills the snapshot in logical order. The i-th
\* successful push on a producer region writes its value at logical offset i
\* of the snapshot (first slice first) and nothing else, the push after
\* total-length successes fails with Full while slot_count() is 0, and after
\* the region is released the consumer, popping until Empty, gets the values
\* that were readable before followed by the values pushed, in push order.
ProducerRegionFillsInOrder ==
  [][/\ (lastOp' = "producer_region.push" /\ result' = "Ok")
        => /\ pregion.produced < PairLen(pregion.slices)
           /\ buffer' = [buffer EXCEPT
                 ![PairIdx(pregion.slices)[pregion.produced + 1]] = arg']
           /\ pregion'.produced = pregion.produced + 1
     /\ (lastOp' = "producer_region.push" /\ result' # "Ok")
        => /\ result' = "Full"
           /\ pregion.produced = PairLen(pregion.slices)
           /\ producer_region_slot_count = 0
           /\ UNCHANGED <<buffer, pregion>>
     /\ lastOp' = "producer_region.drop"
        => LET before == PopDrain(read_index, size)
               after == PopDrain(read_index, size)'
           IN /\ after.ok
              /\ after.values = before.values \o Staged]_vars

\* C18: opposite-side regions are disjoint. Whenever a consumer region and a
\* producer region are open at the same time, the slots of the consumer
\* region's snapshot and the slots of the producer region's snapshot have no
\* slot in common.
OppositeRegionsDisjoint ==
  (cregion.open /\ pregion.open)
    => ConsumerSnapshotSlots \cap ProducerSnapshotSlots = {}

\* the shared RingBuffer the two regions commit to
Storage == [read_index |-> read_index, size |-> size, buffer |-> buffer]

consumer_drop_from_snapshot(s, k) ==
  [s EXCEPT !.read_index = @ + k, !.size = PairLen(cregion.slices) - k]

\* what Drop for RingBufferConsumerRegion does to the storage; a size below
\* 0 stands for the usize subtraction overflowing
consumer_drop(s, k) == [s EXCEPT !.read_index = @ + k, !.size = @ - k]

\* what Drop for RingBufferProducerRegion does to the storage
producer_drop(s, p) == [s EXCEPT !.size = @ + p]

\* C19: release order does not matter. When a consumer region (consumed = k)
\* and a producer region (produced = p) are both open, releasing the consumer
\* region first and the producer region second leaves the storage
\* (read_index, size, slots) as releasing them in the opposite order does,
\* and no intermediate or final size is below 0; each release step does to
\* the storage exactly what its Drop does.
ReleaseOrderIrrelevant ==
  /\ []((cregion.open /\ pregion.open /\ panicked = "none") =>
          LET k == cregion.consumed
              p == pregion.produced
              c1 == consumer_drop(Storage, k)
              cp == producer_drop(c1, p)
              p1 == producer_drop(Storage, p)
              pc == consumer_drop(p1, k)
          IN /\ cp = pc
             /\ c1.size >= 0 /\ cp.size >= 0
             /\ p1.size >= 0 /\ pc.size >= 0)
  /\ [][/\ lastOp' = "consumer_region.drop"
           => /\ result' = "Ok"
              /\ Storage' = consumer_drop(Storage, cregion.consumed)
        /\ lastOp' = "producer_region.drop"
           => /\ result' = "Ok"
              /\ Storage' = producer_drop(Storage, pregion.produced)]_vars

\* a consumer region that consumed a value was released while a producer
\* region holding a pushed value was still open
ReleaseOrderIrrelevantWitness ==
  /\ lastOp = "consumer_region.drop"
  /\ commit.k >= 1
  /\ pregion.open
  /\ pregion.produced >= 1

\* ---- draining under fairness ----------------------------------------------
\* a consumer step that takes committed values out of the storage:
\* consumer.pop returning a value, or the release of a consumer region
\* that consumed at least one slot
Deliver ==
  \/ ConsumerPop /\ result' = "Ok"
  \/ ConsumerRegionDrop /\ cregion.consumed >= 1 /\ result' = "Ok"

\* the consumer keeps draining: a live consumer region is eventually
\* released, and a delivery that is possible again and again is made
LiveSpec ==
  /\ Init
  /\ [][Next]_vars
  /\ WF_vars(ConsumerRegionDrop)
  /\ SF_vars(Deliver)

\* the last step delivered committed values to the consumer
Delivered ==
  \/ lastOp = "consumer.pop" /\ result = "Ok"
  \/ lastOp = "consumer_region.drop" /\ result = "Ok" /\ commit.k >= 1

\* C20: every committed value is eventually delivered. For capacity >= 1,
\* with a consumer that keeps draining under fairness, whenever committed
\* values wait in the storage (size > 0) a delivery eventually follows;
\* deliveries take the oldest values first, so every committed value is
\* eventually returned to the consumer.
CommittedEventuallyDelivered ==
  (capacity >= 1 /\ size > 0 /\ ~Delivered) ~> Delivered

====
